---- MODULE Spec2Model ----
(***************************************************************************)
(* Marlin G34 (Z-stepper automatic alignment) and the probe position table *)
(* it reads, Marlin/src/gcode/calibrate/G34_M422.cpp.                      *)
(*                                                                         *)
(* Lengths, the gain and the probe positions are floats, as in the source: *)
(* a float is a pair <<mantissa, exponent>> with a 24-bit mantissa, and     *)
(* the arithmetic below rounds each result as IEEE-754 binary32 does.       *)
(* Numbers a caller writes on a command line, and the heights a probe      *)
(* reports, are drawn as whole hundredths and converted to the nearest     *)
(* float.  Integers have the width the source gives them.                  *)
(*                                                                         *)
(* G34 is one uninterrupted sequence; pc is its position in the function.  *)
(* The planner, the probe, the stepper locks, the tool changer and the     *)
(* homing routine are called, not defined, in this file: each call is      *)
(* recorded in hw in the order the code issues it, and its effect on the   *)
(* state this file reads back is modelled at the call.                     *)
(***************************************************************************)
EXTENDS Integers, Sequences, FiniteSets, TLC

(* ---------------------------- bounds ---------------------------------- *)

\* Largest valid I parameter given explicitly (the code accepts 1..30; with no I the
\* run has Z_STEPPER_ALIGN_ITERATIONS iterations).
MaxIter == 2

(* ----------------------- build configuration -------------------------- *)

\* The build modelled has Z_STEPPER_AUTO_ALIGN, a bed probe, two hotends, bed leveling
\* and RESTORE_LEVELING_AFTER_G34, so that every conditional block that touches the tool
\* or the leveling state is compiled in; Z_TRIPLE_STEPPER_DRIVERS is either way
\* (Z_STEPPER_COUNT).  CNC_WORKSPACE_PLANES, HAS_DUPLICATION_MODE and BLTOUCH_HS_MODE
\* are off.  The values below are those of Marlin's default configuration.

HOTENDS == 2                          \* #if HOTENDS > 1
HAS_LEVELING == TRUE                  \* #if HAS_LEVELING
RESTORE_LEVELING_AFTER_G34 == TRUE    \* #if ENABLED(RESTORE_LEVELING_AFTER_G34)
Z_CLEARANCE_BETWEEN_PROBES == 5       \* mm
Z_BASIC_CLEARANCE == Z_CLEARANCE_BETWEEN_PROBES
G34_MAX_GRADE == 5                    \* percent
Z_STEPPER_ALIGN_ITERATIONS == 3
Z_STEPPER_ALIGN_ACC == 2              \* 0.02, in hundredths
Z_STEPPER_ALIGN_AMP == 100            \* 1.0, in hundredths
X_MIN_POS == 0
X_MAX_POS == 235
Y_MIN_POS == 0
Y_MAX_POS == 235
\* Z_STEPPER_ALIGN_XY, in mm, one {X, Y} entry per Z stepper
Z_STEPPER_ALIGN_XY == <<[x |-> 10, y |-> 190], [x |-> 100, y |-> 10], [x |-> 190, y |-> 190]>>

(* --------------------------- inputs ----------------------------------- *)

Absent == -9999                       \* parameter not given on the command line
NoReading == -8888                    \* the probe does not trigger
NaN == <<0, 255>>                     \* the float probe_at_point returns then

\* the I parameters tried, as the int16_t the parser returns: the valid ones up to the
\* bound, those next to the range, and three that do not fit an int8_t
IterInputs == {0, 31, 128, 256, 257} \cup (1 .. MaxIter)
\* The command lines tried (T and A in hundredths): every I, and no I, with T and A left at their defaults; one and two
\* iterations with the tightest accuracy, the largest negative gain and E; each of T
\* and A once on either side of its range.
CommandLines ==
    {[I |-> i, T |-> Absent, A |-> Absent, E |-> FALSE] : i \in IterInputs \cup {Absent}}
      \cup {[I |-> i, T |-> 1, A |-> -200, E |-> TRUE] : i \in {1, 2}}
      \cup {[I |-> MaxIter, T |-> t, A |-> Absent, E |-> FALSE] : t \in {0, 101}}
      \cup {[I |-> MaxIter, T |-> Absent, A |-> a, E |-> FALSE] : a \in {49, -49, 201, -201}}
\* heights the probe can report, in hundredths of a mm
ProbeHeights == {0, 1, 200}

(* --------------------------- helpers ---------------------------------- *)

\* WITHIN on integers
WITHIN(v, lo, hi) == v >= lo /\ v <= hi
\* the value an int8_t holds after an integer is stored into it
int8_t(v) == ((v + 128) % 256) - 128

\* the largest r in lo .. hi with r * r <= v
RECURSIVE SqrtIter(_, _, _)
SqrtIter(v, lo, hi) ==
    IF lo >= hi THEN lo
    ELSE LET mid == (lo + hi + 1) \div 2
         IN IF mid * mid <= v THEN SqrtIter(v, mid, hi) ELSE SqrtIter(v, lo, mid - 1)

(* ----------------------- float arithmetic ----------------------------- *)

\* A float is <<m, e>>, the number m * 2^e, with 2^23 <= |m| < 2^24 (24 significant
\* bits, as IEEE-754 binary32), or <<0, 0>> for zero.  Every operation returns the
\* float nearest to the exact result, ties to the even mantissa, as the FPU does.
\* Subnormals, infinities and the sign of zero do not occur on the lengths of this
\* file and are not represented; NaN is the token NaN.
FZero == <<0, 0>>
FSign(a) == IF a[1] < 0 THEN -1 ELSE 1
Mantissa(a) == IF a[1] < 0 THEN -a[1] ELSE a[1]

\* the float nearest to s * (M + f) * 2^e, where 0 < f < 1 if sticky and f = 0 if not;
\* M has at least 25 bits whenever sticky
RECURSIVE RoundPack(_, _, _, _)
RoundPack(s, M, e, sticky) ==
    IF M = 0 THEN FZero
    ELSE IF M < 4096 THEN RoundPack(s, 4096 * M, e - 12, sticky)
    ELSE IF M < 524288 THEN RoundPack(s, 16 * M, e - 4, sticky)
    ELSE IF M < 8388608 THEN RoundPack(s, 2 * M, e - 1, sticky)
    ELSE IF M < 16777216 THEN <<s * M, e>>
    ELSE IF M < 33554432
      THEN LET q == M \div 2
               up == (M % 2 = 1) /\ (sticky \/ q % 2 = 1)
               r == IF up THEN q + 1 ELSE q
           IN IF r = 16777216 THEN <<s * 8388608, e + 2>> ELSE <<s * r, e + 1>>
    ELSE RoundPack(s, M \div 2, e + 1, sticky \/ M % 2 = 1)

\* an integer as a float
FromInt(n) == IF n < 0 THEN RoundPack(-1, -n, 0, FALSE) ELSE RoundPack(1, n, 0, FALSE)

FNeg(a) == <<-a[1], a[2]>>
ABS(a) == <<Mantissa(a), a[2]>>
\* a < b
FLess(a, b) ==
    IF a[1] <= 0 /\ b[1] >= 0 THEN a[1] < 0 \/ b[1] > 0
    ELSE IF a[1] >= 0 /\ b[1] <= 0 THEN FALSE
    ELSE IF a[1] > 0 THEN a[2] < b[2] \/ (a[2] = b[2] /\ a[1] < b[1])
    ELSE a[2] > b[2] \/ (a[2] = b[2] /\ a[1] < b[1])
_MIN(a, b) == IF FLess(a, b) THEN a ELSE b
_MAX(a, b) == IF FLess(b, a) THEN a ELSE b
FWITHIN(v, lo, hi) == ~FLess(v, lo) /\ ~FLess(hi, v)

\* a + b: the smaller operand is shifted right under three guard bits, the bits
\* shifted out kept as sticky
FAddOrdered(big, small) ==
    LET d == big[2] - small[2]
        Mb == Mantissa(big) * 8
        Ms8 == Mantissa(small) * 8
        Ms == IF d > 27 THEN 0 ELSE Ms8 \div (2 ^ d)
        sticky == IF d > 27 THEN TRUE ELSE Ms8 % (2 ^ d) # 0
    IN IF FSign(big) = FSign(small)
         THEN RoundPack(FSign(big), Mb + Ms, big[2] - 3, sticky)
         ELSE RoundPack(FSign(big), Mb - Ms - (IF sticky THEN 1 ELSE 0), big[2] - 3, sticky)
FAdd(a, b) ==
    IF a[1] = 0 THEN b
    ELSE IF b[1] = 0 THEN a
    ELSE IF a[2] > b[2] \/ (a[2] = b[2] /\ Mantissa(a) >= Mantissa(b))
      THEN FAddOrdered(a, b)
      ELSE FAddOrdered(b, a)
FSub(a, b) == FAdd(a, FNeg(b))

\* a * b: the 48-bit product from 12-bit halves
FMul(a, b) ==
    IF a[1] = 0 \/ b[1] = 0 THEN FZero
    ELSE LET ah == Mantissa(a) \div 4096
             al == Mantissa(a) % 4096
             bh == Mantissa(b) \div 4096
             bl == Mantissa(b) % 4096
             low == al * bl
             mid == ah * bl + al * bh + low \div 4096
             hi == ah * bh + mid \div 4096
             Q == hi * 16 + (mid % 4096) \div 256
             sticky == (mid % 256 # 0) \/ (low % 4096 # 0)
         IN RoundPack(FSign(a) * FSign(b), Q, a[2] + b[2] + 20, sticky)

\* n more quotient bits of r / B by long division; returns <<quotient, remainder>>
RECURSIVE LongDivision(_, _, _, _)
LongDivision(q, r, B, n) ==
    IF n = 0 THEN <<q, r>>
    ELSE IF n >= 6 THEN LongDivision(64 * q + (64 * r) \div B, (64 * r) % B, B, n - 6)
    ELSE IF 2 * r >= B THEN LongDivision(2 * q + 1, 2 * r - B, B, n - 1)
    ELSE LongDivision(2 * q, 2 * r, B, n - 1)
\* a / b, b not zero
FDiv(a, b) ==
    IF a[1] = 0 THEN FZero
    ELSE LET A == Mantissa(a)
             B == Mantissa(b)
             qr == LongDivision(A \div B, A % B, B, 26)
         IN RoundPack(FSign(a) * FSign(b), qr[1], a[2] - b[2] - 26, qr[2] # 0)

\* n more bits of the square root r, with remainder rem
RECURSIVE RootBits(_, _, _)
RootBits(r, rem, n) ==
    IF n = 0 THEN <<r, rem>>
    ELSE IF 4 * rem >= 4 * r + 1 THEN RootBits(2 * r + 1, 4 * rem - (4 * r + 1), n - 1)
    ELSE RootBits(2 * r, 4 * rem, n - 1)
\* sqrtf(a), a >= 0
FSqrt(a) ==
    IF a[1] = 0 THEN FZero
    ELSE LET odd == a[2] % 2 = 1
             m == IF odd THEN 2 * a[1] ELSE a[1]
             e == IF odd THEN a[2] - 1 ELSE a[2]
             r0 == SqrtIter(m, 0, 8191)
             rr == RootBits(r0, m - r0 * r0, 14)
         IN RoundPack(1, rr[1], e \div 2 - 14, rr[2] # 0)

\* the float written as a decimal number of hundredths, as the parser reads it
Hundredths(d) == FDiv(FromInt(d), FromInt(100))

HYPOT2(a, b) == FAdd(FMul(a, a), FMul(b, b))
SQRT(v) == FSqrt(v)
HYPOT(a, b) == SQRT(HYPOT2(a, b))

\* parser.intval: the int16_t given, or the default
intval(p, dval) == IF p = Absent THEN dval ELSE p
\* parser.floatval: the float nearest to the decimal given, or the default
floatval(p, dval) == IF p = Absent THEN dval ELSE Hundredths(p)

VARIABLES
    Z_STEPPER_COUNT,            \* 2, or 3 with Z_TRIPLE_STEPPER_DRIVERS
    z_auto_align_pos,           \* xy_pos_t z_auto_align_pos[Z_STEPPER_COUNT]
    locked,                     \* stepper.locked_Z_motor, locked_Z2_motor, locked_Z3_motor
    separate_multi_axis,        \* stepper.separate_multi_axis
    leveling_active,            \* planner.leveling_active
    active_extruder,
    axes_known,                 \* all_axes_known(): the set of axes whose position is known
    probe_deployed,
    current_position_z,
    pc,
    args,                       \* the parsed command line: I, T, A, E
    z_auto_align_iterations, z_auto_align_accuracy, z_auto_align_amplification,
    leveling_was_active, old_tool_index,
    z_probe, last_z_align_move, z_measured, z_maxdiff, amplification, raise_after,
    iteration, err_break, izstepper, zstepper, z_measured_min, success_break,
    z_align_move,
    lock_i,                     \* position inside set_all_z_lock
    serial,                     \* the messages written to the serial port
    did_iterations,             \* the count printed by "Did ... iterations of ..."
    hw,                         \* the calls made to the other subsystems, in order
    entry                       \* the machine state when G34 was entered

locals == <<z_auto_align_iterations, z_auto_align_accuracy, z_auto_align_amplification,
            leveling_was_active, old_tool_index, z_probe, last_z_align_move, z_measured,
            z_maxdiff, amplification, raise_after, iteration, err_break, izstepper,
            zstepper, z_measured_min, success_break, z_align_move, lock_i>>
machine == <<z_auto_align_pos, locked, separate_multi_axis, leveling_active,
             active_extruder, axes_known, probe_deployed, current_position_z>>
vars == <<Z_STEPPER_COUNT, machine, pc, args, locals, serial, did_iterations, hw, entry>>

Steppers == 0 .. (Z_STEPPER_COUNT - 1)
AllAxes == {"X", "Y", "Z"}
\* every axis taken as known
all_axes_known_Always == TRUE
all_axes_known == axes_known = AllAxes

\* one call to another subsystem: op, the iteration it belongs to (-1 outside the
\* loop), the stepper it concerns (-1 if none) and a value
Call(op, k, a, v) == [op |-> op, k |-> k, a |-> a, v |-> v]


(* ------------------- the decisions the code takes --------------------- *)

\* line 82: WITHIN(z_auto_align_iterations, 1, 30)
IterationsInBounds(i) == WITHIN(i, 1, 30)
\* line 88: WITHIN(z_auto_align_accuracy, 0.01f, 1.0f)
AccuracyInBounds(t) == FWITHIN(t, Hundredths(1), FromInt(1))
\* line 94: WITHIN(ABS(z_auto_align_amplification), 0.5f, 2.0f)
AmplificationInBounds(a) == FWITHIN(ABS(a), Hundredths(50), FromInt(2))

\* lines 133-141: the first clearance height, from the probe positions:
\* Z_BASIC_CLEARANCE + (G34_MAX_GRADE) * 0.01f * SQRT(...)
InitialClearance(pos, n) ==
    LET d(i) == FSub(pos[i].x, pos[i].y) IN
    FAdd(FromInt(Z_BASIC_CLEARANCE),
         FMul(FMul(FromInt(G34_MAX_GRADE), Hundredths(1)),
              IF n = 3
                THEN SQRT(_MAX(_MAX(HYPOT2(d(0), d(1)), HYPOT2(d(1), d(2))),
                               HYPOT2(d(2), d(0))))
                ELSE HYPOT(d(0), d(1))))

\* <= instead of <
IterationLoopCondition_Inclusive(it, iters) == it <= iters
\* line 158: the loop condition of for (iteration ...)
IterationLoopCondition(it, iters) == it < iters
\* the same direction in every iteration
ProbeStepper_AlwaysUpward(it, iz, n) == iz
\* line 168: iteration odd/even --> downward / upward stepper sequence
ProbeStepper(it, iz, n) == IF it % 2 = 1 THEN n - 1 - iz ELSE iz
\* the move skipped for the first point of the first iteration only
NeedsClearanceMove_ExceptVeryFirst(it, iz) == it > 0 \/ iz > 0
\* line 171: if (iteration == 0 || izstepper > 0)
NeedsClearanceMove(it, iz) == it = 0 \/ iz > 0
\* lines 195-201: z_maxdiff
MaxDiff(m, n) ==
    IF n = 3
      THEN _MAX(_MAX(ABS(FSub(m[0], m[1])), ABS(FSub(m[1], m[2]))), ABS(FSub(m[2], m[0])))
      ELSE ABS(FSub(m[0], m[1]))
\* lines 195-201: the next z_probe
NextClearance(m, n) ==
    FAdd(FAdd(FromInt(Z_BASIC_CLEARANCE),
              IF n = 3 THEN _MAX(_MAX(m[0], m[1]), m[2]) ELSE _MAX(m[0], m[1])),
         MaxDiff(m, n))
\* the ratio taken as it is, without the limit of 2.0
Amplify_Uncapped(amp, it, last, abs, configured) ==
    IF FLess(FZero, abs)
      THEN IF it = 1 THEN FDiv(last, abs) ELSE configured
      ELSE amp
\* the ratio taken in every iteration after the first, not only in iteration 1
Amplify_EveryLaterIteration(amp, it, last, abs, configured) ==
    IF FLess(FZero, abs)
      THEN IF it >= 1 THEN _MIN(FDiv(last, abs), FromInt(2)) ELSE configured
      ELSE amp
\* line 224: if (z_align_abs > 0.0f) amplification = iteration == 1
\*   ? _MIN(last_z_align_move[zstepper] / z_align_abs, 2.0f) : z_auto_align_amplification
Amplify(amp, it, last, abs, configured) ==
    IF FLess(FZero, abs)
      THEN IF it = 1 THEN _MIN(FDiv(last, abs), FromInt(2)) ELSE configured
      ELSE amp
\* the failed reading is not noticed
isnan_Never(h) == FALSE
\* line 175: isnan(z_probed_height)
isnan(h) == h = NaN
\* set_all_z_lock(true) at both call sites
LockArgument_AlwaysTrue(at) == TRUE
\* set_all_z_lock(false) at both call sites
LockArgument_AlwaysFalse(at) == FALSE
\* lines 242 and 256: the argument of set_all_z_lock at each of its two call sites
LockArgument(at) == at = "lock_all"
\* the break leaves the iteration loop as well, past lines 255-257
DivergenceBreakTarget_LeavesIterationLoop == "after_loop"
\* line 230: the break leaves for (zstepper), to line 255
DivergenceBreakTarget == "unlock_all"
\* a margin of 10.0 instead of 1.0
LessAccurate_TenfoldMargin(last, abs) == FLess(last, FSub(abs, FromInt(10)))
\* line 227: last_z_align_move[zstepper] < z_align_abs - 1.0; the subtraction is made
\* in double and is exact there.  The float subtraction is exact too unless
\* z_align_abs < 0.5, where the difference is negative either way and last is not.
LessAccurate(last, abs) == FLess(last, FSub(abs, FromInt(1)))
\* the configured default instead of the target given with T
MissesTarget_DefaultTarget(abs, acc) == FLess(Hundredths(Z_STEPPER_ALIGN_ACC), abs)
\* line 237: z_align_abs > z_auto_align_accuracy
MissesTarget(abs, acc) == FLess(acc, abs)
\* the gain applied to the sum: amplification * (z_align_move + current_position.z)
CorrectionTarget_GainOnSum(amp, move, z) == FMul(amp, FAdd(move, z))
\* line 252: amplification * z_align_move + current_position.z
CorrectionTarget(amp, move, z) == FAdd(FMul(amp, move), z)
\* the loop index as it stands, without the adjustment
DidIterations_LoopIndex(it, iters) == it
\* line 267: iteration + (iteration != z_auto_align_iterations)
DidIterations(it, iters) == it + (IF it # iters THEN 1 ELSE 0)

(* --------------------------- initial state ---------------------------- *)

NoArgs == [I |-> Absent, T |-> Absent, A |-> Absent, E |-> FALSE]
Snapshot == [active_extruder |-> active_extruder, leveling_active |-> leveling_active,
             current_position_z |-> current_position_z, locked |-> locked,
             separate_multi_axis |-> separate_multi_axis, axes_known |-> axes_known,
             probe_deployed |-> probe_deployed, z_auto_align_pos |-> z_auto_align_pos]

Init ==
    /\ Z_STEPPER_COUNT \in {2, 3}
    /\ z_auto_align_pos = [i \in 0 .. (Z_STEPPER_COUNT - 1) |->
                              [x |-> FromInt(Z_STEPPER_ALIGN_XY[i + 1].x),
                               y |-> FromInt(Z_STEPPER_ALIGN_XY[i + 1].y)]]
    /\ locked = [i \in 0 .. (Z_STEPPER_COUNT - 1) |-> FALSE]
    /\ separate_multi_axis = FALSE
    /\ leveling_active \in (IF HAS_LEVELING THEN BOOLEAN ELSE {FALSE})
    /\ active_extruder \in 0 .. (HOTENDS - 1)
    /\ axes_known \in {{}, AllAxes}
    /\ probe_deployed = FALSE
    /\ current_position_z = (IF axes_known = AllAxes THEN FromInt(10) ELSE FZero)
    /\ pc = "idle"
    /\ args = NoArgs
    /\ z_auto_align_iterations = 0 /\ z_auto_align_accuracy = FZero
    /\ z_auto_align_amplification = FZero
    /\ leveling_was_active = FALSE /\ old_tool_index = 0
    /\ z_probe = FZero
    /\ last_z_align_move = [i \in 0 .. (Z_STEPPER_COUNT - 1) |-> FZero]
    /\ z_measured = [i \in 0 .. (Z_STEPPER_COUNT - 1) |-> FZero]
    /\ z_maxdiff = FZero /\ amplification = FZero /\ raise_after = "PROBE_PT_RAISE"
    /\ iteration = 0 /\ err_break = FALSE /\ izstepper = 0 /\ zstepper = 0
    /\ z_measured_min = FZero /\ success_break = FALSE /\ z_align_move = FZero
    /\ lock_i = 0
    /\ serial = {}
    /\ did_iterations = -1
    /\ hw = <<>>
    /\ entry = [active_extruder |-> active_extruder, leveling_active |-> leveling_active,
                current_position_z |-> current_position_z, locked |-> locked,
                separate_multi_axis |-> separate_multi_axis, axes_known |-> axes_known,
                probe_deployed |-> probe_deployed, z_auto_align_pos |-> z_auto_align_pos]

(* ------------------------------ G34 ----------------------------------- *)

\* lines 73-79: G34 is called with the parameters I, T, A and E
G34_Call(lines) ==
    /\ pc = "idle"
    /\ \E line \in lines : args' = line
    /\ entry' = Snapshot
    /\ pc' = "check_I"
    /\ UNCHANGED <<Z_STEPPER_COUNT, machine, locals, serial, did_iterations, hw>>
G34_Enter == G34_Call(CommandLines)

\* lines 81-85
CheckIterations ==
    /\ pc = "check_I"
    /\ LET v == int8_t(intval(args.I, Z_STEPPER_ALIGN_ITERATIONS)) IN
         /\ z_auto_align_iterations' = v
         /\ IF ~IterationsInBounds(v)
              THEN /\ serial' = serial \cup {"?(I)teration out of bounds (1-30)."}
                   /\ pc' = "done"
              ELSE /\ serial' = serial
                   /\ pc' = "check_T"
    /\ UNCHANGED <<Z_STEPPER_COUNT, machine, args, z_auto_align_accuracy,
                   z_auto_align_amplification, leveling_was_active, old_tool_index,
                   z_probe, last_z_align_move, z_measured, z_maxdiff, amplification,
                   raise_after, iteration, err_break, izstepper, zstepper, z_measured_min,
                   success_break, z_align_move, lock_i, did_iterations, hw, entry>>

\* lines 87-91
CheckAccuracy ==
    /\ pc = "check_T"
    /\ LET v == floatval(args.T, Hundredths(Z_STEPPER_ALIGN_ACC)) IN
         /\ z_auto_align_accuracy' = v
         /\ IF ~AccuracyInBounds(v)
              THEN /\ serial' = serial \cup {"?(T)arget accuracy out of bounds (0.01-1.0)."}
                   /\ pc' = "done"
              ELSE /\ serial' = serial
                   /\ pc' = "check_A"
    /\ UNCHANGED <<Z_STEPPER_COUNT, machine, args, z_auto_align_iterations,
                   z_auto_align_amplification, leveling_was_active, old_tool_index,
                   z_probe, last_z_align_move, z_measured, z_maxdiff, amplification,
                   raise_after, iteration, err_break, izstepper, zstepper, z_measured_min,
                   success_break, z_align_move, lock_i, did_iterations, hw, entry>>

\* lines 93-97
CheckAmplification ==
    /\ pc = "check_A"
    /\ LET v == floatval(args.A, Hundredths(Z_STEPPER_ALIGN_AMP)) IN
         /\ z_auto_align_amplification' = v
         /\ IF ~AmplificationInBounds(v)
              THEN /\ serial' = serial \cup {"?(A)mplification out of bounds (0.5-2.0)."}
                   /\ pc' = "done"
              ELSE /\ serial' = serial
                   /\ pc' = "synchronize"
    /\ UNCHANGED <<Z_STEPPER_COUNT, machine, args, z_auto_align_iterations,
                   z_auto_align_accuracy, leveling_was_active, old_tool_index,
                   z_probe, last_z_align_move, z_measured, z_maxdiff, amplification,
                   raise_after, iteration, err_break, izstepper, zstepper, z_measured_min,
                   success_break, z_align_move, lock_i, did_iterations, hw, entry>>

\* lines 99-100: planner.synchronize()
Synchronize ==
    /\ pc = "synchronize"
    /\ hw' = Append(hw, Call("synchronize", -1, -1, 0))
    /\ pc' = "disable_leveling"
    /\ UNCHANGED <<Z_STEPPER_COUNT, machine, args, locals, serial, did_iterations, entry>>

\* lines 102-108: remember and disable bed leveling
DisableLeveling ==
    /\ pc = "disable_leveling"
    /\ IF HAS_LEVELING
         THEN /\ leveling_was_active' =
                   (IF RESTORE_LEVELING_AFTER_G34 THEN leveling_active ELSE leveling_was_active)
              /\ leveling_active' = FALSE
              /\ hw' = Append(hw, Call("set_bed_leveling_enabled", -1, -1, 0))
         ELSE UNCHANGED <<leveling_was_active, leveling_active, hw>>
    /\ pc' = "tool_change"
    /\ UNCHANGED <<Z_STEPPER_COUNT, z_auto_align_pos, locked, separate_multi_axis,
                   active_extruder, axes_known, probe_deployed, current_position_z, args,
                   z_auto_align_iterations, z_auto_align_accuracy,
                   z_auto_align_amplification, old_tool_index,
                   z_probe, last_z_align_move, z_measured, z_maxdiff, amplification,
                   raise_after, iteration, err_break, izstepper, zstepper, z_measured_min,
                   success_break, z_align_move, lock_i, serial, did_iterations, entry>>

\* lines 114-118: always home with tool 0 active
SelectTool0 ==
    /\ pc = "tool_change"
    /\ IF HOTENDS > 1
         THEN /\ old_tool_index' = active_extruder
              /\ active_extruder' = 0
              /\ hw' = Append(hw, Call("tool_change", -1, -1, 0))
         ELSE UNCHANGED <<old_tool_index, active_extruder, hw>>
    /\ pc' = "z_probe"
    /\ UNCHANGED <<Z_STEPPER_COUNT, z_auto_align_pos, locked, separate_multi_axis,
                   leveling_active, axes_known, probe_deployed, current_position_z, args,
                   z_auto_align_iterations, z_auto_align_accuracy,
                   z_auto_align_amplification, leveling_was_active,
                   z_probe, last_z_align_move, z_measured, z_maxdiff, amplification,
                   raise_after, iteration, err_break, izstepper, zstepper, z_measured_min,
                   success_break, z_align_move, lock_i, serial, did_iterations, entry>>

\* lines 133-141: float z_probe = Z_BASIC_CLEARANCE + G34_MAX_GRADE * 0.01f * (...)
ComputeClearance ==
    /\ pc = "z_probe"
    /\ z_probe' = InitialClearance(z_auto_align_pos, Z_STEPPER_COUNT)
    /\ pc' = "home"
    /\ UNCHANGED <<Z_STEPPER_COUNT, machine, args,
                   z_auto_align_iterations, z_auto_align_accuracy,
                   z_auto_align_amplification, leveling_was_active, old_tool_index,
                   last_z_align_move, z_measured, z_maxdiff, amplification,
                   raise_after, iteration, err_break, izstepper, zstepper, z_measured_min,
                   success_break, z_align_move, lock_i, serial, did_iterations, hw, entry>>

\* lines 143-144: if (!all_axes_known()) home_all_axes()
\* Homing leaves every axis known and the carriage at the Z home position, 0.
HomeBefore ==
    /\ pc = "home"
    /\ IF ~all_axes_known
         THEN /\ axes_known' = AllAxes
              /\ current_position_z' = FZero
              /\ hw' = Append(hw, Call("home_all_axes", -1, -1, 0))
         ELSE UNCHANGED <<axes_known, current_position_z, hw>>
    /\ pc' = "shift_z"
    /\ UNCHANGED <<Z_STEPPER_COUNT, z_auto_align_pos, locked, separate_multi_axis,
                   leveling_active, active_extruder, probe_deployed, args, locals,
                   serial, did_iterations, entry>>

\* lines 146-147: current_position.z -= z_probe * 0.5f
ShiftZ ==
    /\ pc = "shift_z"
    /\ current_position_z' = FSub(current_position_z, FMul(z_probe, Hundredths(50)))
    /\ pc' = "init_loop"
    /\ UNCHANGED <<Z_STEPPER_COUNT, z_auto_align_pos, locked, separate_multi_axis,
                   leveling_active, active_extruder, axes_known, probe_deployed, args,
                   locals, serial, did_iterations, hw, entry>>

\* lines 149-158: the loop's variables and for (iteration = 0; ...)
InitLoop ==
    /\ pc = "init_loop"
    /\ last_z_align_move' = [i \in Steppers |-> FromInt(10000)]
    /\ z_measured' = [i \in Steppers |-> FZero]
    /\ z_maxdiff' = FZero
    /\ amplification' = z_auto_align_amplification
    /\ raise_after' = (IF args.E THEN "PROBE_PT_STOW" ELSE "PROBE_PT_RAISE")
    /\ iteration' = 0
    /\ err_break' = FALSE
    /\ pc' = "for_iteration"
    /\ UNCHANGED <<Z_STEPPER_COUNT, machine, args,
                   z_auto_align_iterations, z_auto_align_accuracy,
                   z_auto_align_amplification, leveling_was_active, old_tool_index,
                   z_probe, izstepper, zstepper, z_measured_min,
                   success_break, z_align_move, lock_i, serial, did_iterations, hw, entry>>

\* lines 158-164: the loop condition; z_measured_min = 100000.0f
ForIteration ==
    /\ pc = "for_iteration"
    /\ IF IterationLoopCondition(iteration, z_auto_align_iterations)
         THEN /\ z_measured_min' = FromInt(100000)
              /\ izstepper' = 0
              /\ pc' = "for_probe"
         ELSE /\ UNCHANGED <<z_measured_min, izstepper>>
              /\ pc' = "after_loop"
    /\ UNCHANGED <<Z_STEPPER_COUNT, z_auto_align_pos, locked, separate_multi_axis,
                   leveling_active, active_extruder, axes_known, probe_deployed,
                   current_position_z, args, z_auto_align_iterations,
                   z_auto_align_accuracy, z_auto_align_amplification, leveling_was_active,
                   old_tool_index, z_probe, last_z_align_move, z_measured, z_maxdiff,
                   amplification, raise_after, iteration, err_break, zstepper,
                   success_break, z_align_move, lock_i, serial, did_iterations, hw, entry>>

\* line 166: for (izstepper = 0; izstepper < Z_STEPPER_COUNT; ++izstepper)
ForProbe ==
    /\ pc = "for_probe"
    /\ pc' = (IF izstepper < Z_STEPPER_COUNT THEN "clearance" ELSE "after_probing")
    /\ UNCHANGED <<Z_STEPPER_COUNT, z_auto_align_pos, locked, separate_multi_axis,
                   leveling_active, active_extruder, axes_known, probe_deployed,
                   current_position_z, args, z_auto_align_iterations,
                   z_auto_align_accuracy, z_auto_align_amplification, leveling_was_active,
                   old_tool_index, z_probe, last_z_align_move, z_measured, z_maxdiff,
                   amplification, raise_after, iteration, err_break, izstepper, zstepper,
                   z_measured_min, success_break, z_align_move, lock_i, serial,
                   did_iterations, hw, entry>>

\* lines 170-171: safe clearance even on an incline
ClearanceMove ==
    /\ pc = "clearance"
    /\ IF NeedsClearanceMove(iteration, izstepper)
         THEN /\ current_position_z' = z_probe
              /\ hw' = Append(hw, Call("do_blocking_move_to_z", iteration, -1, z_probe))
         ELSE UNCHANGED <<current_position_z, hw>>
    /\ pc' = "probe"
    /\ UNCHANGED <<Z_STEPPER_COUNT, z_auto_align_pos, locked, separate_multi_axis,
                   leveling_active, active_extruder, axes_known, probe_deployed, args,
                   z_auto_align_iterations, z_auto_align_accuracy,
                   z_auto_align_amplification, leveling_was_active, old_tool_index,
                   z_probe, last_z_align_move, z_measured, z_maxdiff, amplification,
                   raise_after, iteration, err_break, izstepper, zstepper, z_measured_min,
                   success_break, z_align_move, lock_i, serial, did_iterations, entry>>

\* lines 173-189: probe a Z height for the stepper of this turn.
\* The probe reports a height or NaN.  After a reading it has left the carriage at the
\* trigger height, raised by the clearance and still deployed when raise_after is
\* PROBE_PT_RAISE; after a failure it is stowed.
ProbeAtPoint ==
    /\ pc = "probe"
    /\ \E reading \in ProbeHeights \cup {NoReading} :
         LET z_probed_height == IF reading = NoReading THEN NaN ELSE Hundredths(reading)
             zs == ProbeStepper(iteration, izstepper, Z_STEPPER_COUNT)
         IN
           /\ hw' = Append(hw, Call("probe_at_point", iteration, zs, z_probed_height))
           /\ IF isnan(z_probed_height)
                THEN /\ serial' = serial \cup {"Probing failed."}
                     /\ err_break' = TRUE
                     /\ probe_deployed' = FALSE
                     /\ pc' = "after_probing"
                     /\ UNCHANGED <<z_measured, z_measured_min, izstepper,
                                    current_position_z>>
                ELSE /\ z_measured' = [z_measured EXCEPT
                            ![zs] = FAdd(z_probed_height, FromInt(Z_CLEARANCE_BETWEEN_PROBES))]
                     /\ z_measured_min' = _MIN(z_measured_min, z_measured'[zs])
                     /\ izstepper' = izstepper + 1
                     /\ probe_deployed' = (raise_after = "PROBE_PT_RAISE")
                     /\ current_position_z' =
                          (IF raise_after = "PROBE_PT_RAISE"
                             THEN FAdd(z_probed_height, FromInt(Z_CLEARANCE_BETWEEN_PROBES))
                             ELSE z_probed_height)
                     /\ pc' = "for_probe"
                     /\ UNCHANGED <<serial, err_break>>
    /\ UNCHANGED <<Z_STEPPER_COUNT, z_auto_align_pos, locked, separate_multi_axis,
                   leveling_active, active_extruder, axes_known, args,
                   z_auto_align_iterations, z_auto_align_accuracy,
                   z_auto_align_amplification, leveling_was_active, old_tool_index,
                   z_probe, last_z_align_move, z_maxdiff, amplification, raise_after,
                   iteration, zstepper, success_break, z_align_move, lock_i,
                   did_iterations, entry>>

\* line 191: if (err_break) break
AfterProbing ==
    /\ pc = "after_probing"
    /\ pc' = (IF err_break THEN "after_loop" ELSE "adapt_clearance")
    /\ UNCHANGED <<Z_STEPPER_COUNT, z_auto_align_pos, locked, separate_multi_axis,
                   leveling_active, active_extruder, axes_known, probe_deployed,
                   current_position_z, args, z_auto_align_iterations,
                   z_auto_align_accuracy, z_auto_align_amplification, leveling_was_active,
                   old_tool_index, z_probe, last_z_align_move, z_measured, z_maxdiff,
                   amplification, raise_after, iteration, err_break, izstepper, zstepper,
                   z_measured_min, success_break, z_align_move, lock_i, serial,
                   did_iterations, hw, entry>>

\* lines 193-201: adapt the next probe clearance height
AdaptClearance ==
    /\ pc = "adapt_clearance"
    /\ z_maxdiff' = MaxDiff(z_measured, Z_STEPPER_COUNT)
    /\ z_probe' = NextClearance(z_measured, Z_STEPPER_COUNT)
    /\ pc' = "separate_on"
    /\ UNCHANGED <<Z_STEPPER_COUNT, z_auto_align_pos, locked, separate_multi_axis,
                   leveling_active, active_extruder, axes_known, probe_deployed,
                   current_position_z, args, z_auto_align_iterations,
                   z_auto_align_accuracy, z_auto_align_amplification, leveling_was_active,
                   old_tool_index, last_z_align_move, z_measured, amplification,
                   raise_after, iteration, err_break, izstepper, zstepper, z_measured_min,
                   success_break, z_align_move, lock_i, serial, did_iterations, hw, entry>>

\* the correction loop started at the second stepper
SeparateOn_FromSecondStepper ==
    /\ pc = "separate_on"
    /\ separate_multi_axis' = TRUE
    /\ hw' = Append(hw, Call("set_separate_multi_axis", iteration, -1, 1))
    /\ success_break' = TRUE
    /\ zstepper' = 1
    /\ pc' = "for_correct"
    /\ UNCHANGED <<Z_STEPPER_COUNT, z_auto_align_pos, locked, leveling_active,
                   active_extruder, axes_known, probe_deployed, current_position_z, args,
                   z_auto_align_iterations, z_auto_align_accuracy,
                   z_auto_align_amplification, leveling_was_active, old_tool_index,
                   z_probe, last_z_align_move, z_measured, z_maxdiff, amplification,
                   raise_after, iteration, err_break, izstepper, z_measured_min,
                   z_align_move, lock_i, serial, did_iterations, entry>>

\* lines 213-218: stepper.set_separate_multi_axis(true); success_break = true
SeparateOn ==
    /\ pc = "separate_on"
    /\ separate_multi_axis' = TRUE
    /\ hw' = Append(hw, Call("set_separate_multi_axis", iteration, -1, 1))
    /\ success_break' = TRUE
    /\ zstepper' = 0
    /\ pc' = "for_correct"
    /\ UNCHANGED <<Z_STEPPER_COUNT, z_auto_align_pos, locked, leveling_active,
                   active_extruder, axes_known, probe_deployed, current_position_z, args,
                   z_auto_align_iterations, z_auto_align_accuracy,
                   z_auto_align_amplification, leveling_was_active, old_tool_index,
                   z_probe, last_z_align_move, z_measured, z_maxdiff, amplification,
                   raise_after, iteration, err_break, izstepper, z_measured_min,
                   z_align_move, lock_i, serial, did_iterations, entry>>

\* line 218: for (zstepper = 0; zstepper < Z_STEPPER_COUNT; ++zstepper)
ForCorrect ==
    /\ pc = "for_correct"
    /\ lock_i' = 0
    /\ pc' = (IF zstepper < Z_STEPPER_COUNT THEN "compute_move" ELSE "unlock_all")
    /\ UNCHANGED <<Z_STEPPER_COUNT, z_auto_align_pos, locked, separate_multi_axis,
                   leveling_active, active_extruder, axes_known, probe_deployed,
                   current_position_z, args, z_auto_align_iterations,
                   z_auto_align_accuracy, z_auto_align_amplification, leveling_was_active,
                   old_tool_index, z_probe, last_z_align_move, z_measured, z_maxdiff,
                   amplification, raise_after, iteration, err_break, izstepper, zstepper,
                   z_measured_min, success_break, z_align_move, serial, did_iterations, hw,
                   entry>>

\* lines 219-239: the move of this stepper, the gain, the divergence check
ComputeMove ==
    /\ pc = "compute_move"
    /\ LET move == FSub(z_measured[zstepper], z_measured_min)
           z_align_abs == ABS(move)
       IN /\ z_align_move' = move
          /\ amplification' = Amplify(amplification, iteration, last_z_align_move[zstepper],
                                      z_align_abs, z_auto_align_amplification)
          /\ IF LessAccurate(last_z_align_move[zstepper], z_align_abs)
               THEN /\ serial' = serial \cup {"Decreasing accuracy detected."}
                    /\ err_break' = TRUE
                    /\ pc' = DivergenceBreakTarget
                    /\ UNCHANGED <<last_z_align_move, success_break>>
               ELSE /\ last_z_align_move' = [last_z_align_move EXCEPT ![zstepper] = z_align_abs]
                    /\ success_break' = (IF MissesTarget(z_align_abs, z_auto_align_accuracy)
                                           THEN FALSE ELSE success_break)
                    /\ pc' = "lock_all"
                    /\ UNCHANGED <<serial, err_break>>
    /\ UNCHANGED <<Z_STEPPER_COUNT, z_auto_align_pos, locked, separate_multi_axis,
                   leveling_active, active_extruder, axes_known, probe_deployed,
                   current_position_z, args, z_auto_align_iterations,
                   z_auto_align_accuracy, z_auto_align_amplification, leveling_was_active,
                   old_tool_index, z_probe, z_measured, z_maxdiff, raise_after, iteration,
                   izstepper, zstepper, z_measured_min, lock_i, did_iterations, hw, entry>>

\* lines 60-66: set_all_z_lock(lock), one stepper.set_z*_lock call at a time;
\* called with true at line 242 and with false at line 256
SetAllZLockCall ==
    /\ pc \in {"lock_all", "unlock_all"}
    /\ locked' = [locked EXCEPT ![lock_i] = LockArgument(pc)]
    /\ hw' = Append(hw, Call("set_z_lock", iteration, lock_i, IF LockArgument(pc) THEN 1 ELSE 0))
    /\ IF lock_i + 1 < Z_STEPPER_COUNT
         THEN /\ lock_i' = lock_i + 1
              /\ pc' = pc
         ELSE /\ lock_i' = 0
              /\ pc' = (IF pc = "lock_all" THEN "unlock_one" ELSE "separate_off")
    /\ UNCHANGED <<Z_STEPPER_COUNT, z_auto_align_pos, separate_multi_axis, leveling_active,
                   active_extruder, axes_known, probe_deployed, current_position_z, args,
                   z_auto_align_iterations, z_auto_align_accuracy,
                   z_auto_align_amplification, leveling_was_active, old_tool_index,
                   z_probe, last_z_align_move, z_measured, z_maxdiff, amplification,
                   raise_after, iteration, err_break, izstepper, zstepper, z_measured_min,
                   success_break, z_align_move, serial, did_iterations, entry>>

\* the first stepper unlocked whichever is to be corrected
UnlockOne_AlwaysFirst ==
    /\ pc = "unlock_one"
    /\ locked' = [locked EXCEPT ![0] = FALSE]
    /\ hw' = Append(hw, Call("set_z_lock", iteration, 0, 0))
    /\ pc' = "correct"
    /\ UNCHANGED <<Z_STEPPER_COUNT, z_auto_align_pos, separate_multi_axis, leveling_active,
                   active_extruder, axes_known, probe_deployed, current_position_z, args,
                   z_auto_align_iterations, z_auto_align_accuracy,
                   z_auto_align_amplification, leveling_was_active, old_tool_index,
                   z_probe, last_z_align_move, z_measured, z_maxdiff, amplification,
                   raise_after, iteration, err_break, izstepper, zstepper, z_measured_min,
                   success_break, z_align_move, lock_i, serial, did_iterations, entry>>

\* lines 243-249: unlock the stepper to correct
UnlockOne ==
    /\ pc = "unlock_one"
    /\ locked' = [locked EXCEPT ![zstepper] = FALSE]
    /\ hw' = Append(hw, Call("set_z_lock", iteration, zstepper, 0))
    /\ pc' = "correct"
    /\ UNCHANGED <<Z_STEPPER_COUNT, z_auto_align_pos, separate_multi_axis, leveling_active,
                   active_extruder, axes_known, probe_deployed, current_position_z, args,
                   z_auto_align_iterations, z_auto_align_accuracy,
                   z_auto_align_amplification, leveling_was_active, old_tool_index,
                   z_probe, last_z_align_move, z_measured, z_maxdiff, amplification,
                   raise_after, iteration, err_break, izstepper, zstepper, z_measured_min,
                   success_break, z_align_move, lock_i, serial, did_iterations, entry>>

\* lines 251-253: the correction move; ++zstepper
CorrectionMove ==
    /\ pc = "correct"
    /\ LET target == CorrectionTarget(amplification, z_align_move, current_position_z) IN
         /\ current_position_z' = target
         /\ hw' = Append(hw, Call("do_blocking_move_to_z", iteration, zstepper, target))
    /\ zstepper' = zstepper + 1
    /\ pc' = "for_correct"
    /\ UNCHANGED <<Z_STEPPER_COUNT, z_auto_align_pos, locked, separate_multi_axis,
                   leveling_active, active_extruder, axes_known, probe_deployed, args,
                   z_auto_align_iterations, z_auto_align_accuracy,
                   z_auto_align_amplification, leveling_was_active, old_tool_index,
                   z_probe, last_z_align_move, z_measured, z_maxdiff, amplification,
                   raise_after, iteration, err_break, izstepper, z_measured_min,
                   success_break, z_align_move, lock_i, serial, did_iterations, entry>>

\* line 257: stepper.set_separate_multi_axis(false)
SeparateOff ==
    /\ pc = "separate_off"
    /\ separate_multi_axis' = FALSE
    /\ hw' = Append(hw, Call("set_separate_multi_axis", iteration, -1, 0))
    /\ pc' = "end_iteration"
    /\ UNCHANGED <<Z_STEPPER_COUNT, z_auto_align_pos, locked, leveling_active,
                   active_extruder, axes_known, probe_deployed, current_position_z, args,
                   z_auto_align_iterations, z_auto_align_accuracy,
                   z_auto_align_amplification, leveling_was_active, old_tool_index,
                   z_probe, last_z_align_move, z_measured, z_maxdiff, amplification,
                   raise_after, iteration, err_break, izstepper, zstepper, z_measured_min,
                   success_break, z_align_move, lock_i, serial, did_iterations, entry>>

\* lines 259-263: leave the loop on an error or on success; ++iteration
EndIteration ==
    /\ pc = "end_iteration"
    /\ IF err_break
         THEN /\ pc' = "after_loop"
              /\ UNCHANGED <<serial, iteration>>
         ELSE IF success_break
           THEN /\ serial' = serial \cup {"Target accuracy achieved."}
                /\ pc' = "after_loop"
                /\ UNCHANGED iteration
           ELSE /\ iteration' = iteration + 1
                /\ pc' = "for_iteration"
                /\ UNCHANGED serial
    /\ UNCHANGED <<Z_STEPPER_COUNT, z_auto_align_pos, locked, separate_multi_axis,
                   leveling_active, active_extruder, axes_known, probe_deployed,
                   current_position_z, args, z_auto_align_iterations,
                   z_auto_align_accuracy, z_auto_align_amplification, leveling_was_active,
                   old_tool_index, z_probe, last_z_align_move, z_measured, z_maxdiff,
                   amplification, raise_after, err_break, izstepper, zstepper,
                   z_measured_min, success_break, z_align_move, lock_i, did_iterations, hw,
                   entry>>

\* lines 265-269: leave G34 on an error, or report
AfterLoop ==
    /\ pc = "after_loop"
    /\ IF err_break
         THEN /\ serial' = serial \cup {"G34 aborted."}
              /\ pc' = "done"
              /\ UNCHANGED did_iterations
         ELSE /\ did_iterations' = DidIterations(iteration, z_auto_align_iterations)
              /\ serial' = serial \cup {"Did iterations"}
              /\ pc' = "restore_tool"
    /\ UNCHANGED <<Z_STEPPER_COUNT, z_auto_align_pos, locked, separate_multi_axis,
                   leveling_active, active_extruder, axes_known, probe_deployed,
                   current_position_z, args, z_auto_align_iterations,
                   z_auto_align_accuracy, z_auto_align_amplification, leveling_was_active,
                   old_tool_index, z_probe, last_z_align_move, z_measured, z_maxdiff,
                   amplification, raise_after, iteration, err_break, izstepper, zstepper,
                   z_measured_min, success_break, z_align_move, lock_i, hw, entry>>

\* lines 271-280: restore the active tool
RestoreTool ==
    /\ pc = "restore_tool"
    /\ IF HOTENDS > 1
         THEN /\ active_extruder' = old_tool_index
              /\ hw' = Append(hw, Call("tool_change", -1, -1, old_tool_index))
         ELSE UNCHANGED <<active_extruder, hw>>
    /\ pc' = "restore_leveling"
    /\ UNCHANGED <<Z_STEPPER_COUNT, z_auto_align_pos, locked, separate_multi_axis,
                   leveling_active, axes_known, probe_deployed, current_position_z, args,
                   z_auto_align_iterations, z_auto_align_accuracy,
                   z_auto_align_amplification, leveling_was_active, old_tool_index,
                   z_probe, last_z_align_move, z_measured, z_maxdiff, amplification,
                   raise_after, iteration, err_break, izstepper, zstepper, z_measured_min,
                   success_break, z_align_move, lock_i, serial, did_iterations, entry>>

\* lines 282-284: set_bed_leveling_enabled(leveling_was_active)
RestoreLeveling ==
    /\ pc = "restore_leveling"
    /\ IF HAS_LEVELING /\ RESTORE_LEVELING_AFTER_G34
         THEN /\ leveling_active' = leveling_was_active
              /\ hw' = Append(hw, Call("set_bed_leveling_enabled", -1, -1,
                                       IF leveling_was_active THEN 1 ELSE 0))
         ELSE UNCHANGED <<leveling_active, hw>>
    /\ pc' = "not_at_home"
    /\ UNCHANGED <<Z_STEPPER_COUNT, z_auto_align_pos, locked, separate_multi_axis,
                   active_extruder, axes_known, probe_deployed, current_position_z, args,
                   z_auto_align_iterations, z_auto_align_accuracy,
                   z_auto_align_amplification, leveling_was_active, old_tool_index,
                   z_probe, last_z_align_move, z_measured, z_maxdiff, amplification,
                   raise_after, iteration, err_break, izstepper, zstepper, z_measured_min,
                   success_break, z_align_move, lock_i, serial, did_iterations, entry>>

\* lines 286-287: set_axis_is_not_at_home(Z_AXIS)
SetNotAtHome ==
    /\ pc = "not_at_home"
    /\ axes_known' = axes_known \ {"Z"}
    /\ hw' = Append(hw, Call("set_axis_is_not_at_home", -1, -1, 0))
    /\ pc' = "stow"
    /\ UNCHANGED <<Z_STEPPER_COUNT, z_auto_align_pos, locked, separate_multi_axis,
                   leveling_active, active_extruder, probe_deployed, current_position_z,
                   args, z_auto_align_iterations, z_auto_align_accuracy,
                   z_auto_align_amplification, leveling_was_active, old_tool_index,
                   z_probe, last_z_align_move, z_measured, z_maxdiff, amplification,
                   raise_after, iteration, err_break, izstepper, zstepper, z_measured_min,
                   success_break, z_align_move, lock_i, serial, did_iterations, entry>>

\* lines 289-291: STOW_PROBE()
StowProbe ==
    /\ pc = "stow"
    /\ probe_deployed' = FALSE
    /\ hw' = Append(hw, Call("STOW_PROBE", -1, -1, 0))
    /\ pc' = "home_z"
    /\ UNCHANGED <<Z_STEPPER_COUNT, z_auto_align_pos, locked, separate_multi_axis,
                   leveling_active, active_extruder, axes_known, current_position_z, args,
                   z_auto_align_iterations, z_auto_align_accuracy,
                   z_auto_align_amplification, leveling_was_active, old_tool_index,
                   z_probe, last_z_align_move, z_measured, z_maxdiff, amplification,
                   raise_after, iteration, err_break, izstepper, zstepper, z_measured_min,
                   success_break, z_align_move, lock_i, serial, did_iterations, entry>>

\* lines 293-296: process_subcommands_now_P("G28 Z"): Z is homed again
HomeZ ==
    /\ pc = "home_z"
    /\ axes_known' = axes_known \cup {"Z"}
    /\ current_position_z' = FZero
    /\ hw' = Append(hw, Call("G28 Z", -1, -1, 0))
    /\ pc' = "done"
    /\ UNCHANGED <<Z_STEPPER_COUNT, z_auto_align_pos, locked, separate_multi_axis,
                   leveling_active, active_extruder, probe_deployed, args,
                   z_auto_align_iterations, z_auto_align_accuracy,
                   z_auto_align_amplification, leveling_was_active, old_tool_index,
                   z_probe, last_z_align_move, z_measured, z_maxdiff, amplification,
                   raise_after, iteration, err_break, izstepper, zstepper, z_measured_min,
                   success_break, z_align_move, lock_i, serial, did_iterations, entry>>

(* ------------------------- specification ------------------------------ *)

Next ==
    \/ G34_Enter \/ CheckIterations \/ CheckAccuracy \/ CheckAmplification
    \/ Synchronize \/ DisableLeveling \/ SelectTool0 \/ ComputeClearance
    \/ HomeBefore \/ ShiftZ \/ InitLoop
    \/ ForIteration \/ ForProbe \/ ClearanceMove \/ ProbeAtPoint \/ AfterProbing
    \/ AdaptClearance \/ SeparateOn \/ ForCorrect \/ ComputeMove
    \/ SetAllZLockCall \/ UnlockOne \/ CorrectionMove \/ SeparateOff
    \/ EndIteration \/ AfterLoop
    \/ RestoreTool \/ RestoreLeveling \/ SetNotAtHome \/ StowProbe \/ HomeZ

Spec == Init /\ [][Next]_vars

(* ------------------------------ M422 ---------------------------------- *)

\* the M422 command lines tried: S absent (read as 0), 0, the last index of two and of
\* three steppers, one past it, one that does not fit an int8_t; X and Y (in
\* hundredths of a mm) absent, on a travel limit, beyond one
M422Lines ==
    {[S |-> s, X |-> x, Y |-> y] :
        s \in {Absent, 0, 2, 4, 257},
        x \in {Absent, -1, 0, 23501}, y \in {Absent, 23500, 23600}}
\* the G34 command lines run after M422: one iteration with the defaults, and a
\* rejected one
G34LinesAfterM422 ==
    {[I |-> i, T |-> Absent, A |-> Absent, E |-> FALSE] : i \in {0, 1}}

\* line 306: WITHIN(zstepper, 0, Z_STEPPER_COUNT - 1)
StepperIndexValid(zs, n) == WITHIN(zs, 0, n - 1)
\* line 316: WITHIN(pos.x, X_MIN_POS, X_MAX_POS)
PosXInBounds(pos) == FWITHIN(pos.x, FromInt(X_MIN_POS), FromInt(X_MAX_POS))
\* line 321: WITHIN(pos.y, Y_MIN_POS, Y_MAX_POS)
PosYInBounds(pos) == FWITHIN(pos.y, FromInt(Y_MIN_POS), FromInt(Y_MAX_POS))

\* lines 304-327: M422 S<index> X<pos> Y<pos>, called while G34 is not running
M422 ==
    /\ pc = "idle"
    /\ \E line \in M422Lines :
         /\ args' = line
         /\ LET m422_zstepper == int8_t(intval(line.S, 0) - 1) IN
            IF ~StepperIndexValid(m422_zstepper, Z_STEPPER_COUNT)
              THEN /\ serial' = serial \cup {"?(S) Z-Stepper index invalid."}
                   /\ UNCHANGED z_auto_align_pos
              ELSE LET pos == [x |-> floatval(line.X, z_auto_align_pos[m422_zstepper].x),
                               y |-> floatval(line.Y, z_auto_align_pos[m422_zstepper].y)]
                   IN IF ~PosXInBounds(pos)
                        THEN /\ serial' = serial \cup {"?(X) out of bounds."}
                             /\ UNCHANGED z_auto_align_pos
                        ELSE IF ~PosYInBounds(pos)
                          THEN /\ serial' = serial \cup {"?(Y) out of bounds."}
                               /\ UNCHANGED z_auto_align_pos
                          ELSE /\ z_auto_align_pos' =
                                    [z_auto_align_pos EXCEPT ![m422_zstepper] = pos]
                               /\ UNCHANGED serial
    /\ UNCHANGED <<Z_STEPPER_COUNT, locked, separate_multi_axis, leveling_active,
                   active_extruder, axes_known, probe_deployed, current_position_z,
                   pc, locals, did_iterations, hw, entry>>

\* G34 called after any number of M422 commands
G34_EnterAfterM422 == G34_Call(G34LinesAfterM422)

NextM422 ==
    \/ M422 \/ G34_EnterAfterM422
    \/ CheckIterations \/ CheckAccuracy \/ CheckAmplification
    \/ Synchronize \/ DisableLeveling \/ SelectTool0 \/ ComputeClearance
    \/ HomeBefore \/ ShiftZ \/ InitLoop
    \/ ForIteration \/ ForProbe \/ ClearanceMove \/ ProbeAtPoint \/ AfterProbing
    \/ AdaptClearance \/ SeparateOn \/ ForCorrect \/ ComputeMove
    \/ SetAllZLockCall \/ UnlockOne \/ CorrectionMove \/ SeparateOff
    \/ EndIteration \/ AfterLoop
    \/ RestoreTool \/ RestoreLeveling \/ SetNotAtHome \/ StowProbe \/ HomeZ

SpecM422 == Init /\ [][NextM422]_vars

(* ------------------- what a caller can observe ------------------------ *)

InvalidParameterMessages ==
    {"?(I)teration out of bounds (1-30).", "?(T)arget accuracy out of bounds (0.01-1.0).",
     "?(A)mplification out of bounds (0.5-2.0)."}
Rejected == serial \cap InvalidParameterMessages # {}
Returned == pc = "done"
InRun == pc \notin {"idle", "done"}

\* the terminal status, read from the messages G34 prints (lines 176, 228, 261, 265, 267)
Status ==
    IF ~Returned THEN "Running"
    ELSE IF Rejected THEN "InvalidParameter"
    ELSE IF "G34 aborted." \in serial /\ "Probing failed." \in serial
      THEN "AbortedProbeFault"
    ELSE IF "G34 aborted." \in serial /\ "Decreasing accuracy detected." \in serial
      THEN "AbortedDiverging"
    ELSE IF "Target accuracy achieved." \in serial THEN "Converged"
    ELSE "IterationsExhausted"

Unlocked == Cardinality({i \in Steppers : ~locked[i]})

\* the parameters as the caller gave them, defaults applied
GivenIterations == IF args.I = Absent THEN Z_STEPPER_ALIGN_ITERATIONS ELSE args.I
GivenAccuracy == Hundredths(IF args.T = Absent THEN Z_STEPPER_ALIGN_ACC ELSE args.T)
GivenGain == Hundredths(IF args.A = Absent THEN Z_STEPPER_ALIGN_AMP ELSE args.A)
\* some parameter is outside its range, read as the decimal number the caller wrote
GivenInvalid ==
    LET t == IF args.T = Absent THEN Z_STEPPER_ALIGN_ACC ELSE args.T
        a == IF args.A = Absent THEN Z_STEPPER_ALIGN_AMP ELSE args.A
    IN \/ GivenIterations < 1 \/ GivenIterations > 30
       \/ t < 1 \/ t > 100
       \/ (IF a < 0 THEN -a ELSE a) < 50
       \/ (IF a < 0 THEN -a ELSE a) > 200

HwIdx == 1 .. Len(hw)
IsProbe(c) == c.op = "probe_at_point"
IsMove(c) == c.op = "do_blocking_move_to_z"
IsCorrection(c) == c.op = "do_blocking_move_to_z" /\ c.a >= 0
IsLockChange(c) == c.op \in {"set_z_lock", "set_separate_multi_axis"}

(* ------------------------------ claims -------------------------------- *)

\* C1: every G34 run that passes parameter validation returns, whatever its terminal
\* status, with the tool selection and the bed-leveling enabled state it was entered with.
C1_ToolAndLevelingRestored ==
    (Returned /\ ~Rejected) =>
        /\ active_extruder = entry.active_extruder
        /\ leveling_active = entry.leveling_active

\* C2: every G34 run that passes parameter validation ends, on every terminal status,
\* with Z marked not at home, then the probe stowed, then the final G28 Z, in that order.
C2_NotAtHomeStowHomeZ ==
    (Returned /\ ~Rejected) =>
        /\ Len(hw) >= 3
        /\ hw[Len(hw) - 2].op = "set_axis_is_not_at_home"
        /\ hw[Len(hw) - 1].op = "STOW_PROBE"
        /\ hw[Len(hw)].op = "G28 Z"

\* C3: entered with every Z stepper unlocked and separate-multi-axis mode off, G34
\* returns with every Z stepper unlocked and separate-multi-axis mode off on every exit
\* path (invalid parameter, probe fault, divergence, convergence, exhaustion).
C3_UnlockedAtReturn ==
    Returned => /\ \A i \in Steppers : ~locked[i]
                /\ ~separate_multi_axis

\* a run that locked steppers in iteration 1 and then detected divergence at a stepper
\* other than the first
C3_Witness ==
    /\ Returned
    /\ Status = "AbortedDiverging"
    /\ zstepper >= 1
    /\ \E j \in HwIdx : hw[j].op = "set_z_lock" /\ hw[j].v = 1 /\ hw[j].k = 1

\* C4 as claimed: during a run the number of unlocked Z steppers is never 2 or more
\* (1 during an isolated actuation, 0 outside it).
C4_NeverTwoUnlocked == InRun => Unlocked <= 1

\* C4 as amended: at every correction move exactly one Z stepper is unlocked, and
\* whenever separate-multi-axis mode is off (probing, between iterations, before and
\* after the loop, at return) all Z_STEPPER_COUNT steppers are unlocked, not none.
C4_OneAtMoveAllOutside ==
    /\ pc = "correct" => Unlocked = 1
    /\ ~separate_multi_axis => Unlocked = Z_STEPPER_COUNT

\* the correction move of the last of three steppers, in the second iteration
C4_Witness ==
    /\ pc = "correct"
    /\ Z_STEPPER_COUNT = 3
    /\ zstepper = 2
    /\ iteration = 1
    /\ Unlocked = 1

\* C5: with the iteration count outside 1..30, the accuracy outside 0.01..1.0 or the
\* gain magnitude outside 0.5..2.0, G34 returns having called no other subsystem and
\* with the machine state (tool, leveling, locks, Z position, known axes, probe) as at entry.
\* (The parameters are the numbers the caller wrote on the command line.)
C5_InvalidParameterNoEffect ==
    (pc # "idle" /\ GivenInvalid) =>
        /\ hw = <<>>
        /\ Snapshot = entry
        /\ pc \in {"check_I", "check_T", "check_A", "done"}
        /\ Returned => Rejected

(* ---- the run as the calls show it, computed apart from G34's variables ---- *)

\* the probe calls of the run, in order
Probes == SelectSeq(hw, IsProbe)
\* In the operators below P is that sequence.
\* the iterations that probed at all
ProbedIterations(P) == {P[n].k : n \in 1 .. Len(P)}
ProbeCalls(P, k) == {n \in 1 .. Len(P) : P[n].k = k}
\* iteration k got a reading for every stepper
Complete(P, k) ==
    \A i \in Steppers : \E n \in 1 .. Len(P) : P[n].k = k /\ P[n].a = i /\ P[n].v # NaN
Reading(P, k, i) == P[CHOOSE n \in 1 .. Len(P) : P[n].k = k /\ P[n].a = i].v
\* the measured height: the reading plus the clearance (line 183)
Raised(reading) == FAdd(reading, FromInt(Z_CLEARANCE_BETWEEN_PROBES))
Measured(P, k, i) == Raised(Reading(P, k, i))
\* the lowest and the highest measured height of iteration k: those of the lowest and
\* the highest reading (adding the clearance keeps the order)
LowestMeasured(P, k) ==
    LET rs == {Reading(P, k, i) : i \in Steppers}
    IN Raised(CHOOSE r \in rs : \A n \in rs : ~FLess(n, r))
HighestMeasured(P, k) ==
    LET rs == {Reading(P, k, i) : i \in Steppers}
    IN Raised(CHOOSE r \in rs : \A n \in rs : ~FLess(r, n))
\* delta and magnitude of stepper i in iteration k (spec 4.3, steps 4 and 5a), in the
\* float arithmetic of lines 220-221
Delta(P, k, i) == FSub(Measured(P, k, i), LowestMeasured(P, k))
Magnitude(P, k, i) == ABS(Delta(P, k, i))
\* the previous correction magnitude, the sentinel 10000.0 before the first iteration
PreviousMagnitude(P, k, i) == IF k = 0 THEN FromInt(10000) ELSE Magnitude(P, k - 1, i)
Diverging(P, k, i) == FLess(PreviousMagnitude(P, k, i), FSub(Magnitude(P, k, i), FromInt(1)))
DivergingIn(P, k) == \E i \in Steppers : Diverging(P, k, i)
AllWithinTarget(P, k) ==
    LET target == GivenAccuracy
    IN \A i \in Steppers : ~FLess(target, Magnitude(P, k, i))
CorrectedIn(k) == {hw[j].a : j \in {n \in HwIdx : IsCorrection(hw[n]) /\ hw[n].k = k}}
\* C6: an iteration in its correction phase has taken exactly one reading per stepper
\* in that same iteration and corrects from those readings; after a probe fault there
\* is no correction move, no lock change and no probe, in that iteration or later.
\* (The first part is read where the correction phase begins and at each correction
\* move; the second on the calls of the whole run, at return.)
C6_FreshReadingsOrAbort ==
    /\ pc \in {"separate_on", "correct"} =>
         /\ Cardinality(ProbeCalls(Probes, iteration)) = Z_STEPPER_COUNT
         /\ Complete(Probes, iteration)
         /\ \A i \in Steppers :
              z_measured[i] = Measured(Probes, iteration, i)
    /\ Returned =>
         \A j \in HwIdx :
             (IsProbe(hw[j]) /\ hw[j].v = NaN) =>
                 \A n \in HwIdx :
                     n > j => ~(IsProbe(hw[n]) \/ IsCorrection(hw[n]) \/ IsLockChange(hw[n]))

\* a fault at the last stepper of the second iteration, after the first was corrected
C6_Witness ==
    /\ Returned
    /\ Status = "AbortedProbeFault"
    /\ Z_STEPPER_COUNT = 3
    /\ Cardinality(ProbeCalls(Probes, 1)) = 3
    /\ CorrectedIn(0) = Steppers
    /\ CorrectedIn(1) = {}

\* C7: in an iteration in which some stepper's previous magnitude is less than its new
\* magnitude minus 1.0, only the steppers before the first such stepper are corrected,
\* nothing is probed or moved in a later iteration, and the run ends aborted-diverging.
\* (Read on the calls of the whole run, at return.)
C7_DivergenceStopsCorrections ==
    Returned =>
        LET P == Probes IN
        \A k \in ProbedIterations(P) :
            (Complete(P, k) /\ DivergingIn(P, k)) =>
                LET d == CHOOSE i \in Steppers :
                            Diverging(P, k, i) /\ \A e \in Steppers : Diverging(P, k, e) => i <= e
                IN /\ CorrectedIn(k) = 0 .. (d - 1)
                   /\ \A j \in HwIdx : (IsProbe(hw[j]) \/ IsMove(hw[j])) => hw[j].k <= k
                   /\ Status = "AbortedDiverging"

\* divergence at the last of three steppers: the first two were corrected
C7_Witness ==
    /\ Returned
    /\ Z_STEPPER_COUNT = 3
    /\ Complete(Probes, 1)
    /\ Diverging(Probes, 1, 2)
    /\ CorrectedIn(1) = {0, 1}
    /\ Status = "AbortedDiverging"

\* C8: a run ends Converged exactly when it reached an iteration, without fault or
\* divergence, in which every stepper's magnitude is at most the accuracy target;
\* nothing is probed after that iteration, also when it is the last one permitted.
C8_ConvergedIffAllWithinTarget ==
    (Returned /\ ~Rejected) =>
        LET P == Probes
            within == {k \in ProbedIterations(P) :
                         Complete(P, k) /\ ~DivergingIn(P, k) /\ AllWithinTarget(P, k)}
        IN /\ (Status = "Converged") <=> (within # {})
           /\ \A k \in within : \A n \in ProbedIterations(P) : n <= k

\* converged in the last permitted iteration of a run of two, one stepper off by a
\* magnitude that is just within the target
C8_Witness ==
    /\ Returned
    /\ Status = "Converged"
    /\ GivenIterations = 2
    /\ Complete(Probes, 1)
    /\ AllWithinTarget(Probes, 1)
    /\ \E i \in Steppers : FLess(FZero, Magnitude(Probes, 1, i))

\* C9: with iteration limit L, no probe fault, no divergence and in every iteration a
\* stepper beyond the accuracy target, exactly L iterations run (L readings per
\* stepper) and the run ends IterationsExhausted; no run executes more than L iterations.
C9_ExactlyLimitIterations ==
    (Returned /\ ~Rejected /\ GivenIterations \in 1 .. 30) =>
        LET P == Probes IN
        /\ \A k \in ProbedIterations(P) : k < GivenIterations
        /\ Len(P) <= Z_STEPPER_COUNT * GivenIterations
        /\ ( /\ \A n \in 1 .. Len(P) : P[n].v # NaN
             /\ \A k \in ProbedIterations(P) : ~DivergingIn(P, k) /\ ~AllWithinTarget(P, k) )
           => /\ ProbedIterations(P) = 0 .. (GivenIterations - 1)
              /\ Len(P) = Z_STEPPER_COUNT * GivenIterations
              /\ Status = "IterationsExhausted"

\* a run of two iterations that never met its target of 0.01, every reading being 0 or
\* 0.01: the magnitude (0.01f + 5.0f) - 5.0f is above 0.01f
C9_Witness ==
    /\ Returned
    /\ Status = "IterationsExhausted"
    /\ GivenIterations = 2
    /\ args.T = 1
    /\ Len(Probes) = 2 * Z_STEPPER_COUNT
    /\ \A n \in 1 .. Len(Probes) : Probes[n].v \in {FZero, Hundredths(1)}
    /\ \A k \in {0, 1} : Complete(Probes, k) /\ ~AllWithinTarget(Probes, k)

\* C10: iterations with even index probe the steppers in ascending order, those with
\* odd index in descending order, each stepper once per iteration.
\* (Read on the calls of the whole run, at return.)
C10_ProbeOrderAlternates ==
    Returned =>
        LET P == Probes IN
        \A n \in 1 .. Len(P) :
            LET k == (n - 1) \div Z_STEPPER_COUNT
                r == (n - 1) % Z_STEPPER_COUNT
            IN /\ P[n].k = k
               /\ P[n].a = (IF k % 2 = 0 THEN r ELSE Z_STEPPER_COUNT - 1 - r)

\* the second iteration of three steppers, probed 2, 1, 0
C10_Witness ==
    /\ Returned
    /\ Z_STEPPER_COUNT = 3
    /\ Len(Probes) = 6
    /\ Probes[4].a = 2 /\ Probes[5].a = 1 /\ Probes[6].a = 0
    /\ Probes[4].k = 1

(* ---- C11 .. C20 ---- *)

\* C11: in an iteration that reaches its correction phase, the delta of each stepper
\* is its measured height minus the lowest of that iteration, so it is never negative
\* and some stepper has delta 0; the move of a stepper with delta 0 is commanded to the
\* Z position the machine is already at, whatever the gain.
\* (Read at each step that commands a correction move.)
C11_DeltaFromLowest ==
    [][pc = "correct" =>
         LET P == Probes
             d == FSub(Measured(P, iteration, zstepper), LowestMeasured(P, iteration))
         IN /\ z_align_move = d
            /\ ~FLess(d, FZero)
            /\ \E i \in Steppers : Delta(P, iteration, i) = FZero
            /\ d = FZero =>
                 /\ hw'[Len(hw')].op = "do_blocking_move_to_z"
                 /\ hw'[Len(hw')].v = current_position_z
                 /\ current_position_z' = current_position_z]_vars

\* a stepper with delta 0 about to be moved under a gain of -2, away from Z = 0
C11_Witness ==
    /\ pc = "correct"
    /\ z_align_move = FZero
    /\ amplification = FromInt(-2)
    /\ current_position_z # FZero
    /\ \E i \in Steppers : z_measured[i] # z_measured[zstepper]

\* C12: M422 with a stepper index in 1 .. Z_STEPPER_COUNT and X and Y inside the travel
\* limits stores exactly that position for that stepper (an absent coordinate keeps its
\* stored value) and leaves the other steppers' positions as they were; M422 with an
\* invalid index, or with X or Y beyond a limit, leaves the whole table as it was, also
\* when the other coordinate is inside; no step of G34 changes the table.
\* (An M422 step is a step from idle to idle; its parameters are the numbers the caller
\* wrote on the command line, X and Y in hundredths of a mm.)
C12_TableWrittenOnlyByValidM422 ==
    [][IF pc = "idle" /\ pc' = "idle"
         THEN LET c == args'
                  x_ok == c.X = Absent \/ (c.X >= 0 /\ c.X <= 23500)
                  y_ok == c.Y = Absent \/ (c.Y >= 0 /\ c.Y <= 23500)
                  s_ok == c.S # Absent /\ c.S >= 1 /\ c.S <= Z_STEPPER_COUNT
              IN IF s_ok /\ x_ok /\ y_ok
                   THEN \A i \in Steppers :
                          IF i = c.S - 1
                            THEN /\ c.X # Absent => z_auto_align_pos'[i].x = Hundredths(c.X)
                                 /\ c.X = Absent => z_auto_align_pos'[i].x = z_auto_align_pos[i].x
                                 /\ c.Y # Absent => z_auto_align_pos'[i].y = Hundredths(c.Y)
                                 /\ c.Y = Absent => z_auto_align_pos'[i].y = z_auto_align_pos[i].y
                            ELSE z_auto_align_pos'[i] = z_auto_align_pos[i]
                   ELSE z_auto_align_pos' = z_auto_align_pos
         ELSE z_auto_align_pos' = z_auto_align_pos]_vars

\* C13: the iteration count G34 prints is the number of iterations it ran: k + 1 when
\* the run converged in the iteration of index k, the iteration limit when the loop ran
\* out; it never exceeds the limit.  (The limit is the I parameter where that is in
\* 1 .. 30, or the default.)
\* (The iterations run are counted from the probe calls of the whole run, at return.)
C13_ReportedIterationsAreTheTrueCount ==
    (Returned /\ did_iterations # -1) =>
        LET P == Probes
            last == CHOOSE k \in ProbedIterations(P) : \A j \in ProbedIterations(P) : j <= k
        IN /\ did_iterations = Cardinality(ProbedIterations(P))
           /\ Status = "Converged" => did_iterations = last + 1
           /\ GivenIterations \in 1 .. 30 =>
                /\ did_iterations <= GivenIterations
                /\ Status = "IterationsExhausted" => did_iterations = GivenIterations
           /\ Status \in {"Converged", "IterationsExhausted"}

\* a run with the default limit of 3 that converged in its second iteration reports 2
C13_Witness ==
    /\ Returned
    /\ Status = "Converged"
    /\ args.I = Absent
    /\ ProbedIterations(Probes) = {0, 1}
    /\ did_iterations = 2

\* the call at position j of the run is the first probe of its iteration
FirstProbeOfIteration(j) ==
    /\ IsProbe(hw[j])
    /\ \A n \in 1 .. (j - 1) : IsProbe(hw[n]) => hw[n].k # hw[j].k
\* the call just before position j is a clearance move (a move for no single stepper)
ClearanceMoveBefore(j) == j > 1 /\ IsMove(hw[j - 1]) /\ hw[j - 1].a = -1
\* the clearance height in force during iteration k: the initial one, or the one
\* computed from the readings of iteration k - 1 (spec 4.3, step 3)
ClearanceHeight(P, k) ==
    IF k = 0
      THEN InitialClearance(z_auto_align_pos, Z_STEPPER_COUNT)
      ELSE FAdd(FAdd(FromInt(Z_BASIC_CLEARANCE), HighestMeasured(P, k - 1)),
                FSub(HighestMeasured(P, k - 1), LowestMeasured(P, k - 1)))

\* C14 as stated: every probe other than the first probe of iteration 0 is immediately
\* preceded by a clearance move.
\* (Read on the calls of the whole run, at return.)
C14_ClearanceBeforeAllButVeryFirst ==
    Returned =>
        \A j \in HwIdx :
            (IsProbe(hw[j]) /\ ~(hw[j].k = 0 /\ FirstProbeOfIteration(j)))
                => ClearanceMoveBefore(j)

\* C14, amended: every probe is immediately preceded by a move to the clearance height
\* in force, except the first probe of each iteration of index >= 1, which follows the
\* previous iteration's correction phase with no move in between; the first probe of
\* iteration 0 does get its clearance move, to the initial clearance height.
\* (Read on the calls of the whole run, at return.)
C14_ClearanceExceptFirstOfLaterIterations ==
    Returned =>
        LET P == Probes
            initial == ClearanceHeight(P, 0)
            InForce(k) == IF k = 0 THEN initial ELSE ClearanceHeight(P, k)
        IN \A j \in HwIdx :
               IsProbe(hw[j]) =>
                   IF hw[j].k >= 1 /\ FirstProbeOfIteration(j)
                     THEN /\ hw[j - 1].op = "set_separate_multi_axis"
                          /\ hw[j - 1].k = hw[j].k - 1
                          /\ hw[j - 1].v = 0
                     ELSE /\ ClearanceMoveBefore(j)
                          /\ hw[j - 1].v = InForce(hw[j].k)
                          /\ hw[j - 1].k = hw[j].k

\* three steppers probed in two iterations: the first probe of iteration 1 comes with
\* no move before it, the second after a move to a recomputed clearance height
C14_Witness ==
    /\ Returned
    /\ Z_STEPPER_COUNT = 3
    /\ Len(Probes) = 6
    /\ ClearanceHeight(Probes, 1) # ClearanceHeight(Probes, 0)
    /\ \E j \in HwIdx :
         /\ FirstProbeOfIteration(j) /\ hw[j].k = 1
         /\ ~IsMove(hw[j - 1])
         /\ IsMove(hw[j + 1]) /\ hw[j + 1].v = ClearanceHeight(Probes, 1)
         /\ IsProbe(hw[j + 2])

\* the correction moves of the run, in order
Corrections == SelectSeq(hw, IsCorrection)
\* how many of the first n - 1 correction moves belong to the iteration of the n-th
RankInIteration(C, n) == Cardinality({m \in 1 .. (n - 1) : C[m].k = C[n].k})

\* C15 as stated: the correction moves of an iteration come in the order in which that
\* iteration probed its steppers, ascending on even and descending on odd indices.
\* (Read on the calls of the whole run, at return.)
C15_CorrectionsInProbeOrder ==
    Returned =>
        LET C == Corrections IN
        \A n \in 1 .. Len(C) :
            C[n].a = ProbeStepper(C[n].k, RankInIteration(C, n), Z_STEPPER_COUNT)

\* C15, amended: in every iteration, of even or odd index, the divergence checks and
\* the correction moves are made for the steppers in ascending order: when the check of
\* a stepper is made, exactly the steppers below it have been moved in that iteration.
\* (The checks are read where they are made, the moves on the calls of the whole run.)
C15_CorrectionsAscending ==
    /\ pc = "compute_move" => CorrectedIn(iteration) = 0 .. (zstepper - 1)
    /\ Returned =>
         LET C == Corrections IN
         \A n \in 1 .. Len(C) : C[n].a = RankInIteration(C, n)

\* three steppers, probed 2, 1, 0 in iteration 1 and then corrected 0, 1, 2
C15_Witness ==
    /\ Returned
    /\ Z_STEPPER_COUNT = 3
    /\ Len(Corrections) = 6
    /\ Corrections[4].k = 1 /\ Corrections[4].a = 0
    /\ Corrections[5].k = 1 /\ Corrections[5].a = 1
    /\ Corrections[6].k = 1 /\ Corrections[6].a = 2
    /\ Probes[4].a = 2

\* C16: when a correction move is commanded, separate-multi-axis mode is on and the
\* one unlocked Z stepper is the stepper whose delta the move applies; every other Z
\* stepper is locked; with two and with three steppers, for every stepper index.
\* (Read at each step that commands a correction move; the stepper moved is the one the
\* move is logged for, its delta recomputed from the probe readings.)
C16_OnlyTheCorrectedStepperMoves ==
    [][pc = "correct" =>
         LET move == hw'[Len(hw')] IN
         /\ IsCorrection(move)
         /\ separate_multi_axis
         /\ {i \in Steppers : ~locked[i]} = {move.a}
         /\ z_align_move = Delta(Probes, iteration, move.a)
         /\ locked' = locked /\ separate_multi_axis' = separate_multi_axis]_vars

\* the second of two steppers is about to be moved by a nonzero delta in the third
\* iteration, alone unlocked
C16_Witness ==
    /\ pc = "correct"
    /\ Z_STEPPER_COUNT = 2
    /\ iteration = 2
    /\ zstepper = 1
    /\ FLess(FZero, z_align_move)
    /\ locked = [i \in Steppers |-> i # 1]
    /\ separate_multi_axis

\* C17: a correction move with a nonzero delta is multiplied by min(previous magnitude /
\* magnitude, 2.0) in the iteration of index 1, the previous magnitude being the one of
\* that stepper in iteration 0, and by the configured gain, sign included, in every
\* other iteration; the ratio is taken from the magnitude of iteration 0, not from the
\* one that replaces it, and the gain is already set when the divergence check stops
\* the run.
\* (Read at each correction move and after a divergence break, the magnitudes
\* recomputed from the probe readings.)
C17_GainOfNonzeroDelta ==
    LET P == Probes
        now == Magnitude(P, iteration, zstepper)
        AsClaimed ==
            /\ FLess(FZero, now)
            /\ IF iteration = 1
                 THEN LET ratio == FDiv(Magnitude(P, 0, zstepper), now) IN
                      IF FLess(ratio, FromInt(2))
                        THEN amplification = ratio
                        ELSE amplification = FromInt(2)
                 ELSE amplification = GivenGain
    IN /\ (pc = "correct" /\ z_align_move # FZero) =>
            AsClaimed /\ last_z_align_move[zstepper] = now
       /\ (pc = "unlock_all" /\ err_break) =>
            AsClaimed /\ last_z_align_move[zstepper] = PreviousMagnitude(P, iteration, zstepper)

\* iteration 1 corrects a stepper whose reading went from 2.00 to 0.01 above the
\* lowest: the gain is 2, where the configured gain is 1
C17_Witness ==
    /\ pc = "correct"
    /\ iteration = 1
    /\ Reading(Probes, 0, zstepper) = Hundredths(200)
    /\ Reading(Probes, 1, zstepper) = Hundredths(1)
    /\ \A k \in {0, 1} : LowestMeasured(Probes, k) = FromInt(Z_CLEARANCE_BETWEEN_PROBES)
    /\ amplification = FromInt(2)
    /\ GivenGain = FromInt(1)

\* C18: the motion barrier, the disabling of bed leveling, the change to tool 0 and,
\* when some axis is not known, the homing of all axes are the first calls of a run
\* that was not rejected, in that order and before any clearance move or probe; at
\* every clearance move, probe and correction move bed leveling is disabled, tool 0 is
\* selected and every axis is known.
\* (Read at each step that moves to the clearance height, probes or corrects.)
C18_PreparedBeforeProbing ==
    pc \in {"clearance", "probe", "correct"} =>
        /\ ~leveling_active
        /\ active_extruder = 0
        /\ axes_known = AllAxes
        /\ Len(hw) >= 3
        /\ hw[1] = Call("synchronize", -1, -1, 0)
        /\ hw[2] = Call("set_bed_leveling_enabled", -1, -1, 0)
        /\ hw[3] = Call("tool_change", -1, -1, 0)
        /\ entry.axes_known # AllAxes => (Len(hw) >= 4 /\ hw[4].op = "home_all_axes")
        /\ \A j \in HwIdx :
             (IsMove(hw[j]) \/ IsProbe(hw[j])) =>
                 j > (IF entry.axes_known # AllAxes THEN 4 ELSE 3)

\* the first probe of a run entered with leveling on, tool 1 selected and no axis
\* known: four preparing calls and the clearance move have been made
C18_Witness ==
    /\ pc = "probe"
    /\ iteration = 0 /\ izstepper = 0
    /\ entry.leveling_active /\ entry.active_extruder = 1 /\ entry.axes_known = {}
    /\ Len(hw) = 5
    /\ IsMove(hw[5])

\* C19: whenever a clearance move or a probe is made, every Z stepper is unlocked and
\* separate-multi-axis mode is off, before the call and after it.
\* (Read at each step that logs a clearance move or a probe.)
C19_AllUnlockedWhileProbing ==
    [][(Len(hw') = Len(hw) + 1
          /\ (IsProbe(hw'[Len(hw')])
                \/ (IsMove(hw'[Len(hw')]) /\ ~IsCorrection(hw'[Len(hw')]))))
         => /\ \A i \in Steppers : ~locked[i] /\ ~locked'[i]
            /\ ~separate_multi_axis /\ ~separate_multi_axis']_vars

\* the second iteration probes its second point, after the correction phase of the
\* first iteration has locked and unlocked the steppers
C19_Witness ==
    /\ pc = "probe"
    /\ iteration = 1 /\ izstepper = 1
    /\ IsMove(hw[Len(hw)]) /\ hw[Len(hw)].a = -1 /\ hw[Len(hw)].k = 1
    /\ Len(Corrections) = Z_STEPPER_COUNT
    /\ \A i \in Steppers : ~locked[i]
    /\ ~separate_multi_axis

\* C20: the gain of every correction move has a magnitude of at most 2.0, be it the
\* configured gain, the ratio taken in iteration 1, or the gain left by the stepper
\* corrected before when the magnitude is 0; the step added to the current Z is at
\* most twice the delta.
\* (Read at each step that commands a correction move.)
C20_GainAtMostTwo ==
    [][pc = "correct" =>
         LET step == FMul(amplification, z_align_move) IN
         /\ ~FLess(FromInt(2), ABS(amplification))
         /\ ~FLess(FMul(FromInt(2), ABS(z_align_move)), ABS(step))
         /\ hw'[Len(hw')].v = FAdd(step, current_position_z)
         /\ current_position_z' = hw'[Len(hw')].v]_vars

\* iteration 1: a stepper with delta 0 is about to be moved under the gain 2 that the
\* ratio of the stepper before it, gone from 2.00 to 0.01 above the lowest, left
\* behind, capped
C20_Witness ==
    /\ pc = "correct"
    /\ iteration = 1
    /\ zstepper >= 1
    /\ z_align_move = FZero
    /\ amplification = FromInt(2)
    /\ Reading(Probes, 0, zstepper - 1) = Hundredths(200)
    /\ Reading(Probes, 1, zstepper - 1) = Hundredths(1)
    /\ Reading(Probes, 1, zstepper) = FZero

====
